---- MODULE Spec2Model ----
(***************************************************************************)
(* PackageDependencyExtractor of src/package-dependencies.ts as a state    *)
(* machine.  Strings are TLA+ strings (a character is a string of length   *)
(* 1); a JavaScript Set is a duplicate-free sequence in insertion order, a *)
(* Map a sequence of [key, value] entries in insertion order, and a missing*)
(* (undefined) value is the empty tuple where a present string s is <<s>>. *)
(***************************************************************************)
EXTENDS Integers, Sequences, FiniteSets, TLC

VARIABLES
    packageMap,                \* Map<string, PackageInfo>
    dependencyMap,             \* Map<string, Set<string>>
    artifactMap,               \* Map<string | undefined, Set<string>>
    basePackageDependencyMap,  \* Map<string, Set<string>>
    libraryCounts,             \* plain object: keyword -> Set<string>
    librariesToCount,          \* string[]
    pc,                        \* "idle", or "reading" inside parseJsonlFile's loop
    returned,                  \* whether a parseJsonlFile call has returned
    ctorArg,                   \* history: the constructor's argument
    consumed,                  \* history: every line read so far
    processed,                 \* history: records processRecord completed
    lastCall,                  \* the public method called last, and what it
                               \* returned or wrote
    errors,                    \* the lines console.error has reported
    rollups,                   \* history: the rollups of the latest
                               \* parseJsonlFile call
    decomposition              \* a class name given to getPackageName and
                               \* getClassName on their own, and what each
                               \* returned

vars == <<packageMap, dependencyMap, artifactMap, basePackageDependencyMap,
          libraryCounts, librariesToCount, pc, returned, ctorArg, consumed,
          processed, lastCall, errors, rollups, decomposition>>

----------------------------------------------------------------------------
(* Bounds of the model *)

MaxLines == 2

\* The longest class name, before any array marks, given to the helpers
MaxNameLen == 4

----------------------------------------------------------------------------
(* JavaScript values and strings *)

Undefined == <<>>
Some(s) == <<s>>
IsDefined(v) == v # Undefined
Value(v) == v[1]

Range(seq) == {seq[i] : i \in 1..Len(seq)}

Max(S) == CHOOSE x \in S : \A y \in S : y <= x
Min(S) == CHOOSE x \in S : \A y \in S : x <= y

\* s.charAt(i), s.substring(a, b), 0-based as in JavaScript
charAt(s, i) == SubSeq(s, i + 1, i + 1)
substring(s, a, b) == SubSeq(s, a + 1, b)
substringFrom(s, a) == SubSeq(s, a + 1, Len(s))

startsWith(s, p) == Len(p) <= Len(s) /\ SubSeq(s, 1, Len(p)) = p
endsWith(s, p) == Len(p) <= Len(s) /\ SubSeq(s, Len(s) - Len(p) + 1, Len(s)) = p

\* s.includes(k): k occurs in s as a substring
includes(s, k) ==
    \E i \in 0..(Len(s) - Len(k)) : SubSeq(s, i + 1, i + Len(k)) = k

\* s.indexOf(c) and s.lastIndexOf(c) for a one-character c, -1 when absent
RECURSIVE indexOfFrom(_, _, _)
indexOfFrom(s, c, i) ==
    IF i >= Len(s) THEN -1
    ELSE IF charAt(s, i) = c THEN i
    ELSE indexOfFrom(s, c, i + 1)

RECURSIVE lastIndexOfFrom(_, _, _)
lastIndexOfFrom(s, c, i) ==
    IF i < 0 THEN -1
    ELSE IF charAt(s, i) = c THEN i
    ELSE lastIndexOfFrom(s, c, i - 1)

indexOf(s, c) == indexOfFrom(s, c, 0)
lastIndexOf(s, c) == lastIndexOfFrom(s, c, Len(s) - 1)

UpperCase == "ABCDEFGHIJKLMNOPQRSTUVWXYZ"
LowerCase == "abcdefghijklmnopqrstuvwxyz"

UpperCaseLetters == {charAt(UpperCase, i) : i \in 0..(Len(UpperCase) - 1)}
LowerCaseLetters == {charAt(LowerCase, i) : i \in 0..(Len(LowerCase) - 1)}

\* The lower-case letter of each upper-case letter
lowerOf == [c \in UpperCaseLetters |-> charAt(LowerCase, indexOf(UpperCase, c))]

lowerChar(c) == IF c \in UpperCaseLetters THEN lowerOf[c] ELSE c

RECURSIVE toLowerCase(_)
toLowerCase(s) ==
    IF s = "" THEN "" ELSE lowerChar(Head(s)) \o toLowerCase(Tail(s))

IsWhiteSpace(c) == c = " "

RECURSIVE trimStart(_)
trimStart(s) ==
    IF s # "" /\ IsWhiteSpace(charAt(s, 0)) THEN trimStart(Tail(s)) ELSE s

RECURSIVE trimEnd(_)
trimEnd(s) ==
    IF s # "" /\ IsWhiteSpace(charAt(s, Len(s) - 1))
    THEN trimEnd(substring(s, 0, Len(s) - 1))
    ELSE s

trim(s) == trimEnd(trimStart(s))

\* s.split(sep) for a one-character separator
RECURSIVE split(_, _)
split(s, sep) ==
    LET at == indexOf(s, sep)
    IN  IF at = -1
        THEN <<s>>
        ELSE <<substring(s, 0, at)>> \o split(substringFrom(s, at + 1), sep)

\* arr.join(sep)
RECURSIVE join(_, _)
join(arr, sep) ==
    IF Len(arr) = 0 THEN ""
    ELSE IF Len(arr) = 1 THEN arr[1]
    ELSE arr[1] \o sep \o join(Tail(arr), sep)

\* arr.slice(0, n)
slice0(arr, n) == SubSeq(arr, 1, Min({n, Len(arr)}))

----------------------------------------------------------------------------
(* Set<string> and Map<K, V>, both in insertion order *)

SetHas(set, x) == x \in Range(set)
SetAdd(set, x) == IF SetHas(set, x) THEN set ELSE Append(set, x)

MapKeys(map) == [i \in 1..Len(map) |-> map[i].key]
MapHas(map, k) == \E i \in 1..Len(map) : map[i].key = k
MapGet(map, k) == map[CHOOSE i \in 1..Len(map) : map[i].key = k].value
MapSet(map, k, v) ==
    IF MapHas(map, k)
    THEN LET at == CHOOSE i \in 1..Len(map) : map[i].key = k
         IN  SubSeq(map, 1, at - 1) \o <<[key |-> k, value |-> v]>>
                 \o SubSeq(map, at + 1, Len(map))
    ELSE Append(map, [key |-> k, value |-> v])

----------------------------------------------------------------------------
(* A plain object's own keys: Object.keys lists the canonical array-index   *)
(* keys first, in ascending numeric order, then the other string keys in    *)
(* the order in which they were created.                                    *)

Digits == "0123456789"
IsDigit(c) == indexOf(Digits, c) # -1

RECURSIVE toNumber(_)
toNumber(s) ==
    IF s = "" THEN 0
    ELSE 10 * toNumber(substring(s, 0, Len(s) - 1))
            + indexOf(Digits, charAt(s, Len(s) - 1))

\* Canonical numeric strings of up to nine digits; every such number is
\* below 2^32 - 1, the limit of an array index.
IsArrayIndex(s) ==
    /\ s # ""
    /\ Len(s) <= 9
    /\ \A i \in 0..(Len(s) - 1) : IsDigit(charAt(s, i))
    /\ (s = "0" \/ charAt(s, 0) # "0")

IsNotArrayIndex(s) == ~IsArrayIndex(s)

RECURSIVE sortNumeric(_)
sortNumeric(keys) ==
    IF Len(keys) = 0 THEN <<>>
    ELSE LET least == CHOOSE i \in 1..Len(keys) :
                          \A j \in 1..Len(keys) :
                              toNumber(keys[i]) <= toNumber(keys[j])
         IN  <<keys[least]>>
                 \o sortNumeric([i \in 1..(Len(keys) - 1) |->
                                    IF i < least THEN keys[i] ELSE keys[i + 1]])

ObjectKeys(obj) ==
    sortNumeric(SelectSeq(MapKeys(obj), IsArrayIndex))
        \o SelectSeq(MapKeys(obj), IsNotArrayIndex)

----------------------------------------------------------------------------
(* constructor *)

DefaultLibraries == <<"struts", "commons", "log4j", "cryptix">>

\* if (librariesToCount): undefined and the empty string are falsy
Truthy(v) == IsDefined(v) /\ Value(v) # ""

\* variant: only a missing argument selects the defaults
constructorLibrariesToCountUnlessUndefined(arg) ==
    IF IsDefined(arg)
    THEN LET parts == split(Value(arg), ",")
         IN  [i \in 1..Len(parts) |-> toLowerCase(trim(parts[i]))]
    ELSE DefaultLibraries

constructorLibrariesToCount(arg) ==
    IF Truthy(arg)
    THEN LET parts == split(Value(arg), ",")
         IN  [i \in 1..Len(parts) |-> toLowerCase(trim(parts[i]))]
    ELSE DefaultLibraries

RECURSIVE initLibraryCounts(_, _, _)
initLibraryCounts(libs, i, counts) ==
    IF i > Len(libs) THEN counts
    ELSE initLibraryCounts(libs, i + 1, MapSet(counts, libs[i], <<>>))

\* variant: each keyword's set starts out holding the keyword
constructorLibraryCountsSeeded(libs) ==
    LET counts == initLibraryCounts(libs, 1, <<>>)
    IN  [i \in 1..Len(counts) |->
            [key |-> counts[i].key, value |-> <<counts[i].key>>]]

constructorLibraryCounts(libs) == initLibraryCounts(libs, 1, <<>>)

----------------------------------------------------------------------------
(* getPackageName, getClassName, addPackage *)

\* variant: only the leading mark is taken off
unwrapArraySignatureOfPrefix(className) ==
    IF startsWith(className, "[L") /\ endsWith(className, ";")
    THEN substringFrom(className, 2)
    ELSE className

unwrapArraySignature(className) ==
    IF startsWith(className, "[L") /\ endsWith(className, ";")
    THEN substring(className, 2, Len(className) - 1)
    ELSE className

\* variant: cuts at the first dot instead of the last
getPackageNameAtFirstDot(className) ==
    LET processedName == unwrapArraySignature(className)
        firstDotIndex == indexOf(processedName, ".")
    IN  IF firstDotIndex > 0 THEN substring(processedName, 0, firstDotIndex) ELSE ""

getPackageName(className) ==
    LET processedName == unwrapArraySignature(className)
        lastDotIndex == lastIndexOf(processedName, ".")
    IN  IF lastDotIndex > 0 THEN substring(processedName, 0, lastDotIndex) ELSE ""

getClassName(className) ==
    LET processedName == unwrapArraySignature(className)
        lastDotIndex == lastIndexOf(processedName, ".")
    IN  IF lastDotIndex > 0
        THEN substringFrom(processedName, lastDotIndex + 1)
        ELSE processedName

\* variant: a later registration overwrites the flag
addPackageLastWriteWins(pm, packageName, className, isExternal) ==
    LET classes == IF MapHas(pm, packageName)
                   THEN MapGet(pm, packageName).classes ELSE <<>>
    IN  MapSet(pm, packageName,
               [name |-> packageName, classes |-> SetAdd(classes, className),
                isExternal |-> isExternal])

\* variant: a package met as an external target is not registered
addPackageUnlessExternal(pm, packageName, className, isExternal) ==
    IF isExternal /\ ~MapHas(pm, packageName) THEN pm
    ELSE LET created == IF MapHas(pm, packageName) THEN pm
                        ELSE MapSet(pm, packageName,
                                    [name |-> packageName, classes |-> <<>>,
                                     isExternal |-> isExternal])
             info == MapGet(created, packageName)
         IN  MapSet(created, packageName,
                    [info EXCEPT !.classes = SetAdd(info.classes, className)])

addPackage(pm, packageName, className, isExternal) ==
    LET created == IF MapHas(pm, packageName) THEN pm
                   ELSE MapSet(pm, packageName,
                               [name |-> packageName, classes |-> <<>>,
                                isExternal |-> isExternal])
        info == MapGet(created, packageName)
    IN  MapSet(created, packageName,
               [info EXCEPT !.classes = SetAdd(info.classes, className)])

----------------------------------------------------------------------------
(* countSpecificLibraries, processRecord *)

RECURSIVE countLibrariesFrom(_, _, _, _, _)
countLibrariesFrom(libs, i, counts, targetClass, lcTargetClass) ==
    IF i > Len(libs) THEN counts
    ELSE LET library == libs[i]
             next == IF includes(lcTargetClass, library)
                     THEN MapSet(counts, library,
                                 SetAdd(MapGet(counts, library), targetClass))
                     ELSE counts
         IN  countLibrariesFrom(libs, i + 1, next, targetClass, lcTargetClass)

\* variant: the lower-cased name is what the set collects
countSpecificLibrariesLowerCased(libs, counts, targetClass) ==
    LET lcTargetClass == toLowerCase(targetClass)
    IN  countLibrariesFrom(libs, 1, counts, lcTargetClass, lcTargetClass)

countSpecificLibraries(libs, counts, targetClass) ==
    LET lcTargetClass == toLowerCase(targetClass)
    IN  countLibrariesFrom(libs, 1, counts, targetClass, lcTargetClass)

\* record.field: undefined when the parsed object has no such field
Field(record, f) == IF f \in DOMAIN record THEN Some(record[f]) ELSE Undefined

\* String(v), as startsWith applies it to its argument
StringOf(v) == IF IsDefined(v) THEN Value(v) ELSE "undefined"

\* variant: no test that the two packages differ
addDependencyUnguarded(dm, sourcePackage, targetPackage) ==
    LET created == IF MapHas(dm, sourcePackage) THEN dm
                   ELSE MapSet(dm, sourcePackage, <<>>)
    IN  MapSet(created, sourcePackage,
               SetAdd(MapGet(created, sourcePackage), targetPackage))

\* variant: the targets are kept in an array, pushed on every record
addDependencyPushed(dm, sourcePackage, targetPackage) ==
    IF sourcePackage # targetPackage
    THEN LET created == IF MapHas(dm, sourcePackage) THEN dm
                        ELSE MapSet(dm, sourcePackage, <<>>)
         IN  MapSet(created, sourcePackage,
                    Append(MapGet(created, sourcePackage), targetPackage))
    ELSE dm

\* variant: a source package keeps only its latest target
addDependencyOfLatest(dm, sourcePackage, targetPackage) ==
    IF sourcePackage # targetPackage
    THEN MapSet(dm, sourcePackage, <<targetPackage>>)
    ELSE dm

addDependency(dm, sourcePackage, targetPackage) ==
    IF sourcePackage # targetPackage
    THEN LET created == IF MapHas(dm, sourcePackage) THEN dm
                        ELSE MapSet(dm, sourcePackage, <<>>)
         IN  MapSet(created, sourcePackage,
                    SetAdd(MapGet(created, sourcePackage), targetPackage))
    ELSE dm

\* variant: like the edges, only for two different packages
addArtifactPackagesOfEdges(am, artifactId, sourcePackage, targetPackage) ==
    IF sourcePackage = targetPackage THEN am
    ELSE LET created == IF MapHas(am, artifactId) THEN am
                        ELSE MapSet(am, artifactId, <<>>)
             withSource == MapSet(created, artifactId,
                                  SetAdd(MapGet(created, artifactId), sourcePackage))
         IN  MapSet(withSource, artifactId,
                    SetAdd(MapGet(withSource, artifactId), targetPackage))

addArtifactPackages(am, artifactId, sourcePackage, targetPackage) ==
    LET created == IF MapHas(am, artifactId) THEN am
                   ELSE MapSet(am, artifactId, <<>>)
        withSource == MapSet(created, artifactId,
                             SetAdd(MapGet(created, artifactId), sourcePackage))
    IN  MapSet(withSource, artifactId,
               SetAdd(MapGet(withSource, artifactId), targetPackage))

\* variant: a line that cannot be decoded discards what was collected
parseFailureClearing(st) ==
    [packageMap |-> <<>>, dependencyMap |-> <<>>, artifactMap |-> <<>>,
     libraryCounts |-> st.libraryCounts, threw |-> TRUE]

\* JSON.parse(line) throws: processRecord is not called and the catch logs
\* the line
parseFailure(st) == [st EXCEPT !.threw = TRUE]

\* variant: the prefix test is made on the unwrapped class name
isExternalTargetUnwrapped(targetClass, artifactGroup) ==
    ~startsWith(unwrapArraySignature(targetClass), StringOf(artifactGroup))

\* !targetClass.startsWith(record.artifactGroup)
isExternalTarget(targetClass, artifactGroup) ==
    ~startsWith(targetClass, StringOf(artifactGroup))

\* The extractor's state after processRecord(record) from state st, and
\* whether the call threw (a TypeError on an undefined class name).
processRecord(st, libs, record) ==
    LET sourceClass == Field(record, "sourceClass")
        targetClass == Field(record, "targetClass")
    IN  IF ~IsDefined(sourceClass)
        THEN [st EXCEPT !.threw = TRUE]
        ELSE
        LET sourcePackage == getPackageName(Value(sourceClass))
            sourceClassName == getClassName(Value(sourceClass))
            pm1 == addPackage(st.packageMap, sourcePackage, sourceClassName, FALSE)
        IN  IF ~IsDefined(targetClass)
            THEN [st EXCEPT !.packageMap = pm1, !.threw = TRUE]
            ELSE
            LET targetPackage == getPackageName(Value(targetClass))
                targetClassName == getClassName(Value(targetClass))
                isExternal == isExternalTarget(Value(targetClass),
                                               Field(record, "artifactGroup"))
            IN  [packageMap |->
                    addPackage(pm1, targetPackage, targetClassName, isExternal),
                 dependencyMap |->
                    addDependency(st.dependencyMap, sourcePackage, targetPackage),
                 artifactMap |->
                    addArtifactPackages(st.artifactMap, Field(record, "artifactId"),
                                        sourcePackage, targetPackage),
                 libraryCounts |->
                    countSpecificLibraries(libs, st.libraryCounts, Value(targetClass)),
                 threw |-> FALSE]

----------------------------------------------------------------------------
(* getBasePackages, buildBasePackageDependencies *)

StandardPrefixes == {"java", "javax", "org", "com", "net"}

\* variant: two segments whatever the first one is
basePackageOfTwoSegments(segments) == join(slice0(segments, 2), ".")

\* variant: up to three segments whatever the first one is
basePackageOfThreeSegments(segments) ==
    join(slice0(segments, Min({3, Len(segments)})), ".")

basePackageOf(segments) ==
    IF segments[1] \in StandardPrefixes
    THEN join(slice0(segments, 2), ".")
    ELSE join(slice0(segments, Min({3, Len(segments)})), ".")

\* variant: a package of a single segment is grouped too
RECURSIVE getBasePackagesFromAnyLength(_, _, _)
getBasePackagesFromAnyLength(pm, i, basePackages) ==
    IF i > Len(pm) THEN basePackages
    ELSE LET packageName == pm[i].key
             basePackage == basePackageOf(split(packageName, "."))
             created == IF MapHas(basePackages, basePackage) THEN basePackages
                        ELSE MapSet(basePackages, basePackage, <<>>)
         IN  getBasePackagesFromAnyLength(pm, i + 1,
                 MapSet(created, basePackage,
                        SetAdd(MapGet(created, basePackage), packageName)))

RECURSIVE getBasePackagesFrom(_, _, _)
getBasePackagesFrom(pm, i, basePackages) ==
    IF i > Len(pm) THEN basePackages
    ELSE LET packageName == pm[i].key
             segments == split(packageName, ".")
             basePackage == basePackageOf(segments)
             created == IF MapHas(basePackages, basePackage) THEN basePackages
                        ELSE MapSet(basePackages, basePackage, <<>>)
         IN  IF Len(segments) >= 2
             THEN getBasePackagesFrom(pm, i + 1,
                      MapSet(created, basePackage,
                             SetAdd(MapGet(created, basePackage), packageName)))
             ELSE getBasePackagesFrom(pm, i + 1, basePackages)

getBasePackages(pm) == getBasePackagesFrom(pm, 1, <<>>)

\* packageToBaseMap.get(pkg) over the grouping: the last group listing pkg
packageToBase(basePackages, pkg) ==
    LET at == {i \in 1..Len(basePackages) : SetHas(basePackages[i].value, pkg)}
    IN  IF at = {} THEN Undefined ELSE Some(basePackages[Max(at)].key)

RECURSIVE addBaseTargets(_, _, _, _, _)
addBaseTargets(basePackages, sourceBasePackage, targetPackages, j, bpdm) ==
    IF j > Len(targetPackages) THEN bpdm
    ELSE LET targetBasePackage == packageToBase(basePackages, targetPackages[j])
             next == IF Truthy(targetBasePackage)
                        /\ sourceBasePackage # Value(targetBasePackage)
                     THEN MapSet(bpdm, sourceBasePackage,
                                 SetAdd(MapGet(bpdm, sourceBasePackage),
                                        Value(targetBasePackage)))
                     ELSE bpdm
         IN  addBaseTargets(basePackages, sourceBasePackage, targetPackages,
                            j + 1, next)

\* variant: the source's target set is created anew for every fine package
RECURSIVE buildBaseDependenciesResetting(_, _, _, _)
buildBaseDependenciesResetting(basePackages, dm, i, bpdm) ==
    IF i > Len(dm) THEN bpdm
    ELSE LET sourceBasePackage == packageToBase(basePackages, dm[i].key)
             created == MapSet(bpdm, Value(sourceBasePackage), <<>>)
         IN  IF Truthy(sourceBasePackage)
             THEN buildBaseDependenciesResetting(basePackages, dm, i + 1,
                      addBaseTargets(basePackages, Value(sourceBasePackage),
                                     dm[i].value, 1, created))
             ELSE buildBaseDependenciesResetting(basePackages, dm, i + 1, bpdm)

\* variant: the rollup is taken before the last source package is looked at
RECURSIVE buildBaseDependenciesBeforeLast(_, _, _, _)
buildBaseDependenciesBeforeLast(basePackages, dm, i, bpdm) ==
    IF i >= Len(dm) THEN bpdm
    ELSE LET sourceBasePackage == packageToBase(basePackages, dm[i].key)
             created == IF MapHas(bpdm, Value(sourceBasePackage)) THEN bpdm
                        ELSE MapSet(bpdm, Value(sourceBasePackage), <<>>)
         IN  IF Truthy(sourceBasePackage)
             THEN buildBaseDependenciesBeforeLast(basePackages, dm, i + 1,
                      addBaseTargets(basePackages, Value(sourceBasePackage),
                                     dm[i].value, 1, created))
             ELSE buildBaseDependenciesBeforeLast(basePackages, dm, i + 1, bpdm)

\* variant: a map that already has entries is left as it is
RECURSIVE buildBaseDependenciesOnce(_, _, _, _)
buildBaseDependenciesOnce(basePackages, dm, i, bpdm) ==
    IF i > Len(dm) \/ (i = 1 /\ bpdm # <<>>) THEN bpdm
    ELSE LET sourceBasePackage == packageToBase(basePackages, dm[i].key)
             created == IF MapHas(bpdm, Value(sourceBasePackage)) THEN bpdm
                        ELSE MapSet(bpdm, Value(sourceBasePackage), <<>>)
         IN  IF Truthy(sourceBasePackage)
             THEN buildBaseDependenciesOnce(basePackages, dm, i + 1,
                      addBaseTargets(basePackages, Value(sourceBasePackage),
                                     dm[i].value, 1, created))
             ELSE buildBaseDependenciesOnce(basePackages, dm, i + 1, bpdm)

RECURSIVE buildBaseDependenciesFrom(_, _, _, _)
buildBaseDependenciesFrom(basePackages, dm, i, bpdm) ==
    IF i > Len(dm) THEN bpdm
    ELSE LET sourceBasePackage == packageToBase(basePackages, dm[i].key)
             created == IF MapHas(bpdm, Value(sourceBasePackage)) THEN bpdm
                        ELSE MapSet(bpdm, Value(sourceBasePackage), <<>>)
         IN  IF Truthy(sourceBasePackage)
             THEN buildBaseDependenciesFrom(basePackages, dm, i + 1,
                      addBaseTargets(basePackages, Value(sourceBasePackage),
                                     dm[i].value, 1, created))
             ELSE buildBaseDependenciesFrom(basePackages, dm, i + 1, bpdm)

buildBasePackageDependencies(pm, dm, bpdm) ==
    buildBaseDependenciesFrom(getBasePackages(pm), dm, 1, bpdm)

----------------------------------------------------------------------------
(* getLibraryCounts, getLibrariesToCount *)

\* The returned object, as its entries in creation order
getLibraryCounts(counts) ==
    LET keys == ObjectKeys(counts)
    IN  [i \in 1..Len(keys) |->
            [key |-> keys[i], value |-> Len(MapGet(counts, keys[i]))]]

getLibrariesToCount(libs) == libs

----------------------------------------------------------------------------
(* generateMarkdownOutput: the library table *)

upperChar(c) ==
    IF c \in LowerCaseLetters THEN charAt(UpperCase, indexOf(LowerCase, c)) ELSE c

\* library.charAt(0).toUpperCase() + library.slice(1)
capitalize(library) ==
    IF library = "" THEN "" ELSE upperChar(charAt(library, 0)) \o Tail(library)

\* One row per own key of libraryCounts: the keyword, its label, its count
libraryTableRows(counts) ==
    LET keys == ObjectKeys(counts)
    IN  [i \in 1..Len(keys) |->
            [library |-> keys[i],
             label |-> capitalize(keys[i]),
             count |-> Len(MapGet(counts, keys[i]))]]

\* variant: every member package has to be external
isExternalBasePackageEvery(basePackages, pm, basePackage) ==
    \A pkg \in Range(MapGet(basePackages, basePackage)) :
        MapHas(pm, pkg) /\ MapGet(pm, pkg).isExternal

\* Array.from(basePackages.get(basePackage)).some(pkg => packageMap.get(pkg)?.isExternal)
isExternalBasePackage(basePackages, pm, basePackage) ==
    \E pkg \in Range(MapGet(basePackages, basePackage)) :
        MapHas(pm, pkg) /\ MapGet(pm, pkg).isExternal

----------------------------------------------------------------------------
(* Array.prototype.sort and String.prototype.localeCompare *)

\* The characters of the names, in ascending UTF-16 code unit order
CodeUnitOrder ==
    "$.0123456789;ABCDEFGHIJKLMNOPQRSTUVWXYZ[_abcdefghijklmnopqrstuvwxyz"

\* The same characters, letters folded to lower case, in the order of the
\* root collation: punctuation, currency sign, digits, letters
CollationOrder == "_;.[$0123456789abcdefghijklmnopqrstuvwxyz"

\* The place of each character in that order
codeUnit ==
    [c \in {charAt(CodeUnitOrder, i) : i \in 0..(Len(CodeUnitOrder) - 1)} |->
        indexOf(CodeUnitOrder, c)]

\* a < b as sort() without a comparator decides it: by code units
RECURSIVE codeUnitLess(_, _)
codeUnitLess(a, b) ==
    IF b = "" THEN FALSE
    ELSE IF a = "" THEN TRUE
    ELSE IF Head(a) = Head(b) THEN codeUnitLess(Tail(a), Tail(b))
    ELSE codeUnit[Head(a)] < codeUnit[Head(b)]

\* The place of a letter or sign in the root collation, case set aside
collationRanks ==
    [c \in {charAt(CollationOrder, i) : i \in 0..(Len(CollationOrder) - 1)} |->
        indexOf(CollationOrder, c)]

collationRank(c) == collationRanks[lowerChar(c)]
caseRank(c) == IF c \in UpperCaseLetters THEN 1 ELSE 0

\* the sign of the first difference of a and b, letters and signs only
RECURSIVE collationCompare(_, _)
collationCompare(a, b) ==
    IF a = "" /\ b = "" THEN 0
    ELSE IF a = "" THEN -1
    ELSE IF b = "" THEN 1
    ELSE IF collationRank(Head(a)) = collationRank(Head(b))
         THEN collationCompare(Tail(a), Tail(b))
    ELSE IF collationRank(Head(a)) < collationRank(Head(b)) THEN -1 ELSE 1

\* the sign of the first difference in case of two strings of equal letters
RECURSIVE caseCompare(_, _)
caseCompare(a, b) ==
    IF a = "" \/ b = "" THEN 0
    ELSE IF caseRank(Head(a)) = caseRank(Head(b))
         THEN caseCompare(Tail(a), Tail(b))
    ELSE IF caseRank(Head(a)) < caseRank(Head(b)) THEN -1 ELSE 1

\* a.localeCompare(b): the letters and signs decide first, the case of the
\* letters (lower case first) only between strings that are otherwise equal
localeCompare(a, b) ==
    LET primary == collationCompare(a, b)
    IN  IF primary # 0 THEN primary ELSE caseCompare(a, b)

\* arr.sort() is stable: each element in turn goes behind the elements
\* already placed that are not greater than it
RECURSIVE insertByCodeUnits(_, _)
insertByCodeUnits(sorted, x) ==
    IF sorted = <<>> THEN <<x>>
    ELSE IF codeUnitLess(x, Head(sorted)) THEN <<x>> \o sorted
    ELSE <<Head(sorted)>> \o insertByCodeUnits(Tail(sorted), x)

RECURSIVE sortFrom(_, _, _)
sortFrom(arr, i, sorted) ==
    IF i > Len(arr) THEN sorted
    ELSE sortFrom(arr, i + 1, insertByCodeUnits(sorted, arr[i]))

sort(arr) == sortFrom(arr, 1, <<>>)

\* entries.sort((a, b) => a[0].localeCompare(b[0])), likewise
RECURSIVE insertByKey(_, _)
insertByKey(sorted, entry) ==
    IF sorted = <<>> THEN <<entry>>
    ELSE IF localeCompare(entry.key, Head(sorted).key) < 0 THEN <<entry>> \o sorted
    ELSE <<Head(sorted)>> \o insertByKey(Tail(sorted), entry)

RECURSIVE sortByKeyFrom(_, _, _)
sortByKeyFrom(entries, i, sorted) ==
    IF i > Len(entries) THEN sorted
    ELSE sortByKeyFrom(entries, i + 1, insertByKey(sorted, entries[i]))

sortByKey(entries) == sortByKeyFrom(entries, 1, <<>>)

----------------------------------------------------------------------------
(* generateMarkdownOutput: the sections of the document it writes *)

\* externalPackages and internalPackages, filled in sorted order
externalPackagesOf(sortedBasePackages, basePackages, pm) ==
    LET isExternal(basePackage) == isExternalBasePackage(basePackages, pm, basePackage)
    IN  SelectSeq(sortedBasePackages, isExternal)

internalPackagesOf(sortedBasePackages, basePackages, pm) ==
    LET isInternal(basePackage) == ~isExternalBasePackage(basePackages, pm, basePackage)
    IN  SelectSeq(sortedBasePackages, isInternal)

\* variant: the set's own elements are put in sorted order
sortedTargetsInPlace(targets) ==
    [sortedTargets |-> sort(targets), targets |-> sort(targets)]

\* Array.from(targets).sort(): the sorted copy, and the set itself, which
\* keeps its insertion order
sortedTargetsOf(targets) == [sortedTargets |-> sort(targets), targets |-> targets]

\* The "depends on" items, one per entry of basePackageDependencyMap, and the
\* map as the section leaves it
dependencyRelationships(bpdm) ==
    LET sortedBasePackageDependencies == sortByKey(bpdm)
    IN  [items |->
            [i \in 1..Len(sortedBasePackageDependencies) |->
                [source |-> sortedBasePackageDependencies[i].key,
                 targets |-> sortedTargetsOf(
                                 sortedBasePackageDependencies[i].value).sortedTargets]],
         basePackageDependencyMap |->
            [i \in 1..Len(bpdm) |->
                [key |-> bpdm[i].key,
                 value |-> sortedTargetsOf(bpdm[i].value).targets]]]

\* variant: a class name found in several sub-packages counts once
totalClassesDistinct(subPackages, pm, i) ==
    Cardinality(UNION {Range(MapGet(pm, subPackages[j]).classes) :
                          j \in i..Len(subPackages)})

RECURSIVE totalClassesFrom(_, _, _)
totalClassesFrom(subPackages, pm, i) ==
    IF i > Len(subPackages) THEN 0
    ELSE Len(MapGet(pm, subPackages[i]).classes)
             + totalClassesFrom(subPackages, pm, i + 1)

\* The mark on either side of a name in the document; the document has a
\* backquote where this text has an apostrophe
CodeQuote == "'"

\* the text after "- **Dependencies**: "
dependenciesText(bpdm, basePackage) ==
    IF MapHas(bpdm, basePackage)
    THEN LET dependencies == MapGet(bpdm, basePackage)
         IN  IF Len(dependencies) > 0
             THEN join([i \in 1..Len(dependencies) |->
                            CodeQuote \o dependencies[i] \o CodeQuote],
                       ", ")
             ELSE "None"
    ELSE "None"

packageDetails(sortedBasePackages, externalPackages, basePackages, pm, bpdm) ==
    [i \in 1..Len(sortedBasePackages) |->
            LET basePackage == sortedBasePackages[i]
                subPackages == MapGet(basePackages, basePackage)
            IN  [basePackage |-> basePackage,
                 type |-> IF SetHas(externalPackages, basePackage)
                          THEN "External Dependency" ELSE "Internal Package",
                 subPackages |-> Len(subPackages),
                 classes |-> totalClassesFrom(subPackages, pm, 1),
                 dependencies |-> dependenciesText(bpdm, basePackage),
                 includes |-> sort(subPackages)]]

\* The document, section by section, and basePackageDependencyMap as the
\* call leaves it.  A section the code leaves out when its list is empty is
\* an empty list here, and an empty relationships list stands for the line
\* "No dependencies between base packages found".
generateMarkdownOutput(pm, bpdm, counts) ==
    LET basePackages == getBasePackages(pm)
        sortedBasePackages == sort(MapKeys(basePackages))
        externalPackages == externalPackagesOf(sortedBasePackages, basePackages, pm)
        internalPackages == internalPackagesOf(sortedBasePackages, basePackages, pm)
        relationships == dependencyRelationships(bpdm)
    IN  [document |->
            [libraryCounts |-> libraryTableRows(counts),
             externalPackages |-> externalPackages,
             internalPackages |-> internalPackages,
             relationships |-> relationships.items,
             details |-> packageDetails(sortedBasePackages, externalPackages,
                                        basePackages, pm,
                                        relationships.basePackageDependencyMap)],
         basePackageDependencyMap |-> relationships.basePackageDependencyMap]

----------------------------------------------------------------------------
(* The inputs of the model *)

Rec(s, t, g, a) ==
    [sourceClass |-> s, targetClass |-> t, artifactGroup |-> g, artifactId |-> a]

ServiceLocatorRecord ==
    Rec("com.example.sample.component.servicelocator.ejb.ServiceLocator",
        "java.lang.Object", "com.example", "m1")

Records == {
    ServiceLocatorRecord,
    Rec("com.example.sample.component.Foo", "org.apache.log4j.Logger",
        "com.example", "m1"),
    Rec("com.example.sample.component.Foo", "org.apache.Log4J.Logger",
        "com.example", "m2"),
    Rec("com.example.Enum$Value", "[Lcom.example.Enum$Value;", "com.example", "m1"),
    Rec("com.example.sample.component.Foo", "[Lcom.example.util.Bar;",
        "com.example", "m1"),
    Rec("x.y.Z", "java.lang.reflect.Method", "x.y", "m2"),
    Rec("x.y.z.w.V", "x.y.Z", "x.y", "m1"),
    Rec("Main", "util.Helper", "app", "m2"),
    Rec("com.example.Enum$Value", "com.example.Main", "com.example", "m2"),
    Rec("com.example.util.Foo", "com.example.sample.component.Foo",
        "com.example", "m2"),
    \* objects that lack a field
    [targetClass |-> "java.lang.Object", artifactGroup |-> "com.example",
     artifactId |-> "m1"],
    [sourceClass |-> "net.sf.Tool", artifactGroup |-> "net.sf", artifactId |-> "m1"],
    [sourceClass |-> "x.y.Z", targetClass |-> "org.apache.struts.Action"]
}

BlankLine == [kind |-> "blank"]
MalformedLine == [kind |-> "malformed"]
RecordLine(r) == [kind |-> "record", record |-> r]

ConstructorArgs ==
    {Undefined, Some(""), Some("Log4J, 4,,log4j")}

----------------------------------------------------------------------------
(* The state machine *)

Call(name, result) == [name |-> name, result |-> result]

\* Neither helper has been called on its own
NoDecomposition ==
    [className |-> Undefined, packageName |-> Undefined, simpleName |-> Undefined]

Init ==
    /\ ctorArg \in ConstructorArgs
    /\ librariesToCount = constructorLibrariesToCount(ctorArg)
    /\ libraryCounts = constructorLibraryCounts(librariesToCount)
    /\ packageMap = <<>>
    /\ dependencyMap = <<>>
    /\ artifactMap = <<>>
    /\ basePackageDependencyMap = <<>>
    /\ pc = "idle"
    /\ returned = FALSE
    /\ consumed = <<>>
    /\ processed = <<>>
    /\ lastCall = Call("constructor", Undefined)
    /\ errors = <<>>
    /\ rollups = 0
    /\ decomposition = NoDecomposition

\* parseJsonlFile is called and opens its input
ParseJsonlFile ==
    /\ pc = "idle"
    /\ pc' = "reading"
    /\ lastCall' = Call("parseJsonlFile", Undefined)
    /\ rollups' = 0
    /\ UNCHANGED <<decomposition, packageMap, dependencyMap, artifactMap,
                   basePackageDependencyMap, libraryCounts, librariesToCount,
                   returned, ctorArg, consumed, processed, errors>>

\* a line for which line.trim() is empty
ReadBlankLine ==
    /\ pc = "reading"
    /\ Len(consumed) < MaxLines
    /\ consumed' = Append(consumed, BlankLine)
    /\ UNCHANGED <<decomposition, packageMap, dependencyMap, artifactMap,
                   basePackageDependencyMap, libraryCounts, librariesToCount,
                   pc, returned, ctorArg, processed, lastCall, errors,
                   rollups>>

\* a line on which JSON.parse throws: the error is logged
ReadMalformedLine ==
    /\ pc = "reading"
    /\ Len(consumed) < MaxLines
    /\ LET st == [packageMap |-> packageMap, dependencyMap |-> dependencyMap,
                  artifactMap |-> artifactMap, libraryCounts |-> libraryCounts,
                  threw |-> FALSE]
           after == parseFailure(st)
       IN  /\ packageMap' = after.packageMap
           /\ dependencyMap' = after.dependencyMap
           /\ artifactMap' = after.artifactMap
           /\ libraryCounts' = after.libraryCounts
           /\ errors' = IF after.threw THEN Append(errors, MalformedLine)
                        ELSE errors
    /\ consumed' = Append(consumed, MalformedLine)
    /\ UNCHANGED <<decomposition, basePackageDependencyMap, librariesToCount, pc, returned,
                   ctorArg, processed, lastCall, rollups>>

\* a line that parses to an object: processRecord, whose error is logged
ReadRecordLine(record) ==
    /\ pc = "reading"
    /\ Len(consumed) < MaxLines
    /\ LET st == [packageMap |-> packageMap, dependencyMap |-> dependencyMap,
                  artifactMap |-> artifactMap, libraryCounts |-> libraryCounts,
                  threw |-> FALSE]
           after == processRecord(st, librariesToCount, record)
       IN  /\ packageMap' = after.packageMap
           /\ dependencyMap' = after.dependencyMap
           /\ artifactMap' = after.artifactMap
           /\ libraryCounts' = after.libraryCounts
           /\ processed' = IF after.threw THEN processed
                           ELSE Append(processed, record)
           /\ errors' = IF after.threw THEN Append(errors, RecordLine(record))
                        ELSE errors
    /\ consumed' = Append(consumed, RecordLine(record))
    /\ UNCHANGED <<decomposition, basePackageDependencyMap, librariesToCount, pc, returned,
                   ctorArg, lastCall, rollups>>

\* the input ends: the rollup runs and parseJsonlFile returns
EndOfInput ==
    /\ pc = "reading"
    /\ basePackageDependencyMap' =
           buildBasePackageDependencies(packageMap, dependencyMap,
                                        basePackageDependencyMap)
    /\ pc' = "idle"
    /\ returned' = TRUE
    /\ rollups' = rollups + 1
    /\ UNCHANGED <<decomposition, packageMap, dependencyMap, artifactMap, libraryCounts,
                   librariesToCount, ctorArg, consumed, processed, lastCall,
                   errors>>

\* generateMarkdownOutput is called, between runs of parseJsonlFile
GenerateMarkdownOutput ==
    /\ pc = "idle"
    /\ LET after == generateMarkdownOutput(packageMap, basePackageDependencyMap,
                                           libraryCounts)
       IN  /\ lastCall' = Call("generateMarkdownOutput", Some(after.document))
           /\ basePackageDependencyMap' = after.basePackageDependencyMap
    /\ UNCHANGED <<decomposition, packageMap, dependencyMap, artifactMap, libraryCounts,
                   librariesToCount, pc, returned, ctorArg, consumed, processed,
                   errors, rollups>>

\* getBasePackages is called on its own, between runs of parseJsonlFile
GetBasePackages ==
    /\ pc = "idle"
    /\ lastCall' = Call("getBasePackages", Some(getBasePackages(packageMap)))
    /\ UNCHANGED <<decomposition, packageMap, dependencyMap, artifactMap,
                   basePackageDependencyMap, libraryCounts, librariesToCount,
                   pc, returned, ctorArg, consumed, processed, errors,
                   rollups>>

\* getLibraryCounts is called, between runs of parseJsonlFile
GetLibraryCounts ==
    /\ pc = "idle"
    /\ lastCall' = Call("getLibraryCounts", Some(getLibraryCounts(libraryCounts)))
    /\ UNCHANGED <<decomposition, packageMap, dependencyMap, artifactMap,
                   basePackageDependencyMap, libraryCounts, librariesToCount,
                   pc, returned, ctorArg, consumed, processed, errors,
                   rollups>>

\* getLibrariesToCount is called, between runs of parseJsonlFile
GetLibrariesToCount ==
    /\ pc = "idle"
    /\ lastCall' = Call("getLibrariesToCount",
                        Some(getLibrariesToCount(librariesToCount)))
    /\ UNCHANGED <<decomposition, packageMap, dependencyMap, artifactMap,
                   basePackageDependencyMap, libraryCounts, librariesToCount,
                   pc, returned, ctorArg, consumed, processed, errors,
                   rollups>>

Next ==
    \/ ParseJsonlFile
    \/ ReadBlankLine
    \/ ReadMalformedLine
    \/ \E record \in Records : ReadRecordLine(record)
    \/ EndOfInput
    \/ GenerateMarkdownOutput
    \/ GetBasePackages
    \/ GetLibraryCounts
    \/ GetLibrariesToCount

Spec == Init /\ [][Next]_vars

----------------------------------------------------------------------------
(* getPackageName and getClassName called on their own, on every class     *)
(* name of a letter, the dot and the inner-class mark up to MaxNameLen     *)
(* characters, bare and with either or both of the array marks.            *)

NameAlphabet == {"a", ".", "$"}

RECURSIVE NamesOfLength(_)
NamesOfLength(n) ==
    IF n = 0 THEN {""}
    ELSE {s \o c : s \in NamesOfLength(n - 1), c \in NameAlphabet}

PlainNames == UNION {NamesOfLength(n) : n \in 0..MaxNameLen}

\* The Java array-type encoding of the class name n
ArrayForm(n) == "[L" \o n \o ";"

\* Names not in array form: with no array mark, or with only one of the two
UnwrappedNames ==
    PlainNames \cup {"[L" \o n : n \in PlainNames}
               \cup {n \o ";" : n \in PlainNames}

ClassNames == UnwrappedNames \cup {ArrayForm(n) : n \in UnwrappedNames}

InitNames ==
    /\ ctorArg = Undefined
    /\ librariesToCount = constructorLibrariesToCount(ctorArg)
    /\ libraryCounts = constructorLibraryCounts(librariesToCount)
    /\ packageMap = <<>>
    /\ dependencyMap = <<>>
    /\ artifactMap = <<>>
    /\ basePackageDependencyMap = <<>>
    /\ pc = "idle"
    /\ returned = FALSE
    /\ consumed = <<>>
    /\ processed = <<>>
    /\ lastCall = Call("constructor", Undefined)
    /\ errors = <<>>
    /\ rollups = 0
    /\ \E className \in ClassNames :
           decomposition = [NoDecomposition EXCEPT !.className = Some(className)]

\* getPackageName(className)
GetPackageName ==
    /\ IsDefined(decomposition.className)
    /\ ~IsDefined(decomposition.packageName)
    /\ decomposition' =
           [decomposition EXCEPT
               !.packageName = Some(getPackageName(Value(decomposition.className)))]
    /\ UNCHANGED <<packageMap, dependencyMap, artifactMap,
                   basePackageDependencyMap, libraryCounts, librariesToCount,
                   pc, returned, ctorArg, consumed, processed, lastCall, errors,
                   rollups>>

\* getClassName(className)
GetClassName ==
    /\ IsDefined(decomposition.className)
    /\ ~IsDefined(decomposition.simpleName)
    /\ decomposition' =
           [decomposition EXCEPT
               !.simpleName = Some(getClassName(Value(decomposition.className)))]
    /\ UNCHANGED <<packageMap, dependencyMap, artifactMap,
                   basePackageDependencyMap, libraryCounts, librariesToCount,
                   pc, returned, ctorArg, consumed, processed, lastCall, errors,
                   rollups>>

NextNames ==
    \/ GetPackageName
    \/ GetClassName

SpecNames == InitNames /\ [][NextNames]_vars

----------------------------------------------------------------------------
(* Vocabulary of the properties *)

\* parseJsonlFile has returned and no line was read since its rollup
RolledUp == pc = "idle" /\ returned

BasePackages == getBasePackages(packageMap)

\* pkg is a member of the group basePackage of the grouping g
GroupedUnder(g, pkg, basePackage) ==
    /\ MapHas(g, basePackage)
    /\ SetHas(MapGet(g, basePackage), pkg)

EntriesOf(map, k) == IF MapHas(map, k) THEN Range(MapGet(map, k)) ELSE {}

AllEntries(map) == UNION {Range(map[i].value) : i \in 1..Len(map)}

FineEdges ==
    UNION {{<<dependencyMap[i].key, t>> : t \in Range(dependencyMap[i].value)} :
              i \in 1..Len(dependencyMap)}

BaseNames(g) ==
    Range(MapKeys(g)) \cup Range(MapKeys(basePackageDependencyMap))
        \cup AllEntries(basePackageDependencyMap)

DotCount(s) == Cardinality({i \in 0..(Len(s) - 1) : charAt(s, i) = "."})

NoDuplicates(seq) == \A i, j \in 1..Len(seq) : seq[i] = seq[j] => i = j

RecordLines == {consumed[i].record : i \in {j \in 1..Len(consumed) : consumed[j].kind = "record"}}

\* getLibraryCounts()[k]
LibraryCountIn(counts, k) ==
    IF MapHas(counts, k) THEN Some(MapGet(counts, k)) ELSE Undefined

LibraryCountOf(k) == LibraryCountIn(getLibraryCounts(libraryCounts), k)

----------------------------------------------------------------------------
(* C1: after the rollup, base package B is among the dependencies of base   *)
(* package A exactly when some fine edge p -> q has p grouped under A, q    *)
(* grouped under B and A # B; an edge with an endpoint of fewer than two    *)
(* segments has no group and so contributes nothing.                        *)
C1_RollupMatchesFineEdges ==
    RolledUp =>
        LET g == BasePackages
            edges == FineEdges
            names == BaseNames(g)
        IN  \A A \in names : \A B \in names :
                (B \in EntriesOf(basePackageDependencyMap, A))
                    <=> (/\ A # B
                         /\ \E e \in edges :
                                GroupedUnder(g, e[1], A) /\ GroupedUnder(g, e[2], B))

\* a rollup over a fine edge between distinct bases and one without a base
C1_Witness ==
    /\ RolledUp
    /\ AllEntries(basePackageDependencyMap) # {}
    /\ \E e \in FineEdges : DotCount(e[1]) = 0 \/ DotCount(e[2]) = 0

----------------------------------------------------------------------------
(* C2: no package depends on itself in dependencyMap and no base package    *)
(* depends on itself in basePackageDependencyMap, in every state.           *)
C2_NoSelfEdges ==
    /\ \A i \in 1..Len(dependencyMap) :
           ~SetHas(dependencyMap[i].value, dependencyMap[i].key)
    /\ \A i \in 1..Len(basePackageDependencyMap) :
           ~SetHas(basePackageDependencyMap[i].value, basePackageDependencyMap[i].key)

\* a same-package record with an array-form target was processed, and the
\* rollup ran over a fine edge that stays inside one base package
C2_Witness ==
    /\ RolledUp
    /\ \E r \in Range(processed) :
           /\ startsWith(r.targetClass, "[L")
           /\ getPackageName(r.sourceClass) = getPackageName(r.targetClass)
    /\ \E e \in FineEdges : \E A \in BaseNames(BasePackages) :
           GroupedUnder(BasePackages, e[1], A) /\ GroupedUnder(BasePackages, e[2], A)

----------------------------------------------------------------------------
DotPositions(s) == {i \in 0..(Len(s) - 1) : charAt(s, i) = "."}

\* the first n segments of s, n >= 1: s up to its n-th dot, or all of s
FirstSegments(s, n) ==
    LET nth == {i \in DotPositions(s) :
                   Cardinality({j \in DotPositions(s) : j < i}) = n - 1}
    IN  IF nth = {} THEN s ELSE substring(s, 0, CHOOSE i \in nth : TRUE)

ExpectedBasePackage(pkg) ==
    IF FirstSegments(pkg, 1) \in {"java", "javax", "org", "com", "net"}
    THEN FirstSegments(pkg, 2)
    ELSE FirstSegments(pkg, 3)

(* C3: every registered package of at least two segments is a member of the *)
(* group named by its first two segments when its first segment is java,    *)
(* javax, org, com or net, and by its first min(3, count) segments          *)
(* otherwise.  The expected name is cut out of the package name at its dots.*)
C3_GroupingRule ==
    LET g == BasePackages
    IN  \A i \in 1..Len(packageMap) :
            DotCount(packageMap[i].key) >= 1
                => GroupedUnder(g, packageMap[i].key,
                                ExpectedBasePackage(packageMap[i].key))

\* a standard-prefix package of more than two segments, and non-standard
\* packages of two and of more than three segments, are registered
C3_Witness ==
    /\ \E i \in 1..Len(packageMap) :
           /\ startsWith(packageMap[i].key, "com.")
           /\ DotCount(packageMap[i].key) >= 2
    /\ MapHas(packageMap, "x.y")
    /\ MapHas(packageMap, "x.y.z.w")

----------------------------------------------------------------------------
(* C4 as stated: java.lang.reflect groups under java.lang,                  *)
(* com.example.sample.component under com.example.sample, x.y under x.y.    *)
C4_AsStated ==
    LET g == BasePackages
    IN  /\ MapHas(packageMap, "java.lang.reflect")
               => GroupedUnder(g, "java.lang.reflect", "java.lang")
        /\ MapHas(packageMap, "com.example.sample.component")
               => GroupedUnder(g, "com.example.sample.component", "com.example.sample")
        /\ MapHas(packageMap, "x.y") => GroupedUnder(g, "x.y", "x.y")

(* C4: java.lang.reflect groups under java.lang,                            *)
(* com.example.sample.component under com.example (com is a standard        *)
(* prefix), and no group com.example.sample exists for it; x.y groups under *)
(* x.y itself.                                                              *)
C4_StandardPrefixExamples ==
    LET g == BasePackages
    IN  /\ MapHas(packageMap, "java.lang.reflect")
               => GroupedUnder(g, "java.lang.reflect", "java.lang")
        /\ MapHas(packageMap, "com.example.sample.component")
               => /\ GroupedUnder(g, "com.example.sample.component", "com.example")
                  /\ ~GroupedUnder(g, "com.example.sample.component",
                                   "com.example.sample")
        /\ MapHas(packageMap, "x.y") => GroupedUnder(g, "x.y", "x.y")

C4_Witness ==
    /\ MapHas(packageMap, "java.lang.reflect")
    /\ MapHas(packageMap, "com.example.sample.component")
    /\ MapHas(packageMap, "x.y")

----------------------------------------------------------------------------
\* the run over the single ServiceLocator record, default keywords
ScenarioA ==
    /\ RolledUp
    /\ consumed = <<RecordLine(ServiceLocatorRecord)>>
    /\ librariesToCount = DefaultLibraries

ScenarioAResult(internalBase) ==
    LET g == BasePackages
    IN  /\ Range(MapKeys(g)) = {internalBase, "java.lang"}
        /\ ~isExternalBasePackage(g, packageMap, internalBase)
        /\ isExternalBasePackage(g, packageMap, "java.lang")
        /\ basePackageDependencyMap
               = <<[key |-> internalBase, value |-> <<"java.lang">>]>>
        /\ \A k \in Range(DefaultLibraries) : LibraryCountOf(k) = Some(0)

(* C5 as stated: the run yields exactly the base packages                   *)
(* com.example.sample (internal) and java.lang (external), the first        *)
(* depending on the second, and a count of 0 for each default keyword.      *)
C5_AsStated == ScenarioA => ScenarioAResult("com.example.sample")

(* C5: the run yields exactly the base packages com.example (internal) and  *)
(* java.lang (external), com.example depending on java.lang only, and a     *)
(* count of 0 for each default keyword.                                     *)
C5_ScenarioA == ScenarioA => ScenarioAResult("com.example")

C5_Witness == ScenarioA

----------------------------------------------------------------------------
SetsHaveNoDuplicates ==
    /\ \A i \in 1..Len(packageMap) : NoDuplicates(packageMap[i].value.classes)
    /\ \A i \in 1..Len(dependencyMap) : NoDuplicates(dependencyMap[i].value)
    /\ \A i \in 1..Len(artifactMap) : NoDuplicates(artifactMap[i].value)
    /\ \A i \in 1..Len(libraryCounts) : NoDuplicates(libraryCounts[i].value)
    /\ \A i \in 1..Len(basePackageDependencyMap) :
           NoDuplicates(basePackageDependencyMap[i].value)
    /\ NoDuplicates(MapKeys(packageMap))
    /\ NoDuplicates(MapKeys(dependencyMap))
    /\ NoDuplicates(MapKeys(artifactMap))
    /\ NoDuplicates(MapKeys(basePackageDependencyMap))

RereadsARecord ==
    /\ Len(consumed') = Len(consumed) + 1
    /\ consumed'[Len(consumed')].kind = "record"
    /\ consumed'[Len(consumed')] \in Range(consumed)

(* C6: reading a record line equal to one read before leaves the registry,  *)
(* the fine edges, the artifact sets and the library sets as they were; and *)
(* no set ever lists an element twice, so a rolled-up target and a counted  *)
(* class appear once however many records produce them.                     *)
C6_DuplicateRecordIsNoOp ==
    /\ []SetsHaveNoDuplicates
    /\ [][RereadsARecord =>
            UNCHANGED <<packageMap, dependencyMap, artifactMap, libraryCounts>>]_vars

\* the same complete record was processed twice, its target was counted for
\* a keyword, and the rollup ran
C6_Witness ==
    /\ RolledUp
    /\ Len(processed) = 2
    /\ processed[1] = processed[2]
    /\ AllEntries(basePackageDependencyMap) # {}
    /\ \E i \in 1..Len(libraryCounts) : Len(libraryCounts[i].value) = 1

----------------------------------------------------------------------------
(* C7: a run that read no record yields no base package, an empty           *)
(* base-package dependency map and a count of 0 for every configured        *)
(* keyword.                                                                 *)
C7_EmptyInput ==
    (RolledUp /\ RecordLines = {}) =>
        /\ BasePackages = <<>>
        /\ basePackageDependencyMap = <<>>
        /\ \A k \in Range(librariesToCount) : LibraryCountOf(k) = Some(0)

C7_Witness == RolledUp /\ consumed = <<>>

----------------------------------------------------------------------------
MatchingTargets(targets, k) == {t \in targets : includes(toLowerCase(t), k)}

(* C8: the count reported for each configured keyword k is the number of    *)
(* distinct targetClass strings, as written in the records, among the       *)
(* processed records whose lower-cased targetClass contains k.              *)
C8_LibraryCounts ==
    LET counts == getLibraryCounts(libraryCounts)
        targets == {processed[i].targetClass : i \in 1..Len(processed)}
    IN  \A k \in Range(librariesToCount) :
            LibraryCountIn(counts, k) = Some(Cardinality(MatchingTargets(targets, k)))

\* two processed records spell one matching class differently: counted twice
C8_Witness ==
    /\ Len(processed) = 2
    /\ processed[1].targetClass # processed[2].targetClass
    /\ toLowerCase(processed[1].targetClass) = toLowerCase(processed[2].targetClass)
    /\ \E k \in Range(librariesToCount) : LibraryCountOf(k) = Some(2)

----------------------------------------------------------------------------
\* seq without the later repetitions of its elements
RECURSIVE FirstOccurrences(_)
FirstOccurrences(seq) ==
    IF Len(seq) = 0 THEN <<>>
    ELSE LET front == FirstOccurrences(SubSeq(seq, 1, Len(seq) - 1))
             last == seq[Len(seq)]
         IN  IF last \in Range(front) THEN front ELSE Append(front, last)

(* C9 as stated: the keys of getLibraryCounts and the rows of the library   *)
(* table list the configured keywords in the caller's order (a keyword the  *)
(* caller repeats is listed at its first place).                            *)
C9_AsStated ==
    RolledUp =>
        /\ MapKeys(getLibraryCounts(libraryCounts))
               = FirstOccurrences(getLibrariesToCount(librariesToCount))
        /\ [i \in 1..Len(libraryTableRows(libraryCounts)) |->
               libraryTableRows(libraryCounts)[i].library]
             = FirstOccurrences(getLibrariesToCount(librariesToCount))

----------------------------------------------------------------------------
----------------------------------------------------------------------------
(* Vocabulary of the properties of the document *)

\* generateMarkdownOutput was the last call: its document describes the
\* fields as they are now
Reported == lastCall.name = "generateMarkdownOutput"

Document == Value(lastCall.result)

\* the registered packages of at least two segments whose name, cut at its
\* dots, gives the base package b
MembersOf(b) ==
    {packageMap[i].key : i \in {j \in 1..Len(packageMap) :
                                    /\ DotCount(packageMap[j].key) >= 1
                                    /\ ExpectedBasePackage(packageMap[j].key) = b}}

BasePackageNames ==
    {ExpectedBasePackage(packageMap[i].key) :
        i \in {j \in 1..Len(packageMap) : DotCount(packageMap[j].key) >= 1}}

----------------------------------------------------------------------------
(* C11: in the document every base package is listed once, in exactly one   *)
(* of the external and internal lists; the two lists together hold every    *)
(* base package; and a base package is in the external list exactly when    *)
(* one of its member packages is registered with isExternal true.           *)
C11_Partition ==
    Reported =>
        LET external == Document.externalPackages
            internal == Document.internalPackages
        IN  /\ NoDuplicates(external \o internal)
            /\ Range(external) \cup Range(internal) = BasePackageNames
            /\ \A b \in BasePackageNames :
                   SetHas(external, b)
                       <=> \E pkg \in MembersOf(b) : MapGet(packageMap, pkg).isExternal

\* the document lists as external a base package with an internal and an
\* external member, beside an internal base package
C11_Witness ==
    /\ Reported
    /\ Document.internalPackages # <<>>
    /\ \E b \in Range(Document.externalPackages) :
           /\ \E pkg \in MembersOf(b) : MapGet(packageMap, pkg).isExternal
           /\ \E pkg \in MembersOf(b) : ~MapGet(packageMap, pkg).isExternal

----------------------------------------------------------------------------
(* Vocabulary of the properties of the line loop *)

\* the step reads one more line, of the given kind
Reads(kind) ==
    /\ Len(consumed') = Len(consumed) + 1
    /\ consumed'[Len(consumed')].kind = kind

\* the record names both classes
NamesBothClasses(r) == "sourceClass" \in DOMAIN r /\ "targetClass" \in DOMAIN r

\* the class is listed in the registry under its package
ClassRegistered(className) ==
    /\ MapHas(packageMap, getPackageName(className))
    /\ SetHas(MapGet(packageMap, getPackageName(className)).classes,
              getClassName(className))

\* every fine edge between packages of different base packages has its
\* rolled-up edge
RollupCoversFineEdges ==
    \A e \in FineEdges :
        (/\ DotCount(e[1]) >= 1
         /\ DotCount(e[2]) >= 1
         /\ ExpectedBasePackage(e[1]) # ExpectedBasePackage(e[2]))
            => ExpectedBasePackage(e[2])
                   \in EntriesOf(basePackageDependencyMap, ExpectedBasePackage(e[1]))

----------------------------------------------------------------------------
(* C12: a line that cannot be decoded is reported and skipped (the fields   *)
(* stay as they were and the loop goes on); every record line naming both   *)
(* classes is processed wherever it stands among such lines; and whenever   *)
(* the loop is left the rollup has run over all the fine edges.             *)
C12_DecodeFailureIsSkipped ==
    /\ [][Reads("malformed") =>
            /\ UNCHANGED <<packageMap, dependencyMap, artifactMap, libraryCounts,
                           basePackageDependencyMap>>
            /\ errors' = Append(errors, MalformedLine)
            /\ pc' = "reading"]_vars
    /\ [](\A i \in 1..Len(consumed) :
             (consumed[i].kind = "record" /\ NamesBothClasses(consumed[i].record))
                 => /\ ClassRegistered(consumed[i].record.sourceClass)
                    /\ ClassRegistered(consumed[i].record.targetClass))
    /\ [][(pc = "reading" /\ pc' # "reading") =>
            (pc' = "idle" /\ returned' /\ RollupCoversFineEdges')]_vars

\* a run whose first line could not be decoded processed its second line
\* and rolled its edge up
C12_Witness ==
    /\ RolledUp
    /\ Len(consumed) = 2
    /\ consumed[1] = MalformedLine
    /\ consumed[2].kind = "record"
    /\ processed # <<>>
    /\ errors = <<MalformedLine>>
    /\ AllEntries(basePackageDependencyMap) # {}

----------------------------------------------------------------------------
RequiredFields == {"sourceClass", "targetClass", "artifactId", "artifactGroup"}

\* the step reads a line that cannot be decoded, or a record that lacks a
\* required field
ReadsRejectedLine ==
    \/ Reads("malformed")
    \/ /\ Reads("record")
       /\ ~(RequiredFields \subseteq DOMAIN consumed'[Len(consumed')].record)

(* C13 as stated: a line that cannot be decoded, and a record that lacks    *)
(* one of sourceClass, targetClass, artifactId and artifactGroup, leave the *)
(* registry, the fine edges, the artifact map and the library sets as they  *)
(* were before the line.                                                    *)
C13_AsStated ==
    [][ReadsRejectedLine =>
          UNCHANGED <<packageMap, dependencyMap, artifactMap, libraryCounts>>]_vars

----------------------------------------------------------------------------
(* C14 as stated: the relationships list of the document names a base       *)
(* package as a source only if that base package has at least one outgoing  *)
(* rolled-up edge.                                                          *)
C14_AsStated ==
    Reported =>
        \A i \in 1..Len(Document.relationships) :
            /\ Document.relationships[i].targets # <<>>
            /\ EntriesOf(basePackageDependencyMap,
                         Document.relationships[i].source) # {}

----------------------------------------------------------------------------
\* the names, each between the document's quotes, separated by ", "
Listed(names) ==
    join([i \in 1..Len(names) |-> CodeQuote \o names[i] \o CodeQuote], ", ")

\* the outgoing dependencies of base package b, in ascending order
AscendingDependencies(b) ==
    IF MapHas(basePackageDependencyMap, b)
    THEN sort(MapGet(basePackageDependencyMap, b))
    ELSE <<>>

(* C15 as stated: each detail record of the document lists the outgoing     *)
(* dependencies of its base package in ascending order, and shows None      *)
(* exactly when the base package has no outgoing dependency.                *)
C15_AsStated ==
    Reported =>
        \A i \in 1..Len(Document.details) :
            LET detail == Document.details[i]
                ascending == AscendingDependencies(detail.basePackage)
            IN  detail.dependencies
                    = IF ascending = <<>> THEN "None" ELSE Listed(ascending)

----------------------------------------------------------------------------
\* the classes of the member packages of base package b, each with its
\* package
ClassesUnder(b) ==
    UNION {{<<pkg, c>> : c \in Range(MapGet(packageMap, pkg).classes)} :
              pkg \in MembersOf(b)}

(* C16: in each detail record of the document the class count is the number *)
(* of (member package, class name) pairs of the base package, so a class    *)
(* name found in two member packages counts twice, and the sub-package      *)
(* count is the number of member packages.                                  *)
C16_DetailCounts ==
    Reported =>
        \A i \in 1..Len(Document.details) :
            LET detail == Document.details[i]
            IN  /\ detail.classes = Cardinality(ClassesUnder(detail.basePackage))
                /\ detail.subPackages = Cardinality(MembersOf(detail.basePackage))

\* the document counts a base package two of whose member packages hold a
\* class of the same simple name
C16_Witness ==
    /\ Reported
    /\ \E i \in 1..Len(Document.details) :
           LET b == Document.details[i].basePackage
           IN  /\ \E p, q \in MembersOf(b) :
                      /\ p # q
                      /\ Range(MapGet(packageMap, p).classes)
                             \cap Range(MapGet(packageMap, q).classes) # {}
               /\ Document.details[i].subPackages >= 2
               /\ Document.details[i].classes > Document.details[i].subPackages

----------------------------------------------------------------------------
(* C17: a parseJsonlFile call runs the rollup exactly once, after its last  *)
(* line: no rollup has run while the call reads, one has run when it has    *)
(* returned, a step that reads a line leaves basePackageDependencyMap       *)
(* alone, only the step that ends the reading adds to the map, and the      *)
(* rollup it holds then covers every fine edge the lines gave.              *)
C17_RollupOnceAfterLastLine ==
    /\ [](pc = "reading" => rollups = 0)
    /\ [](RolledUp => (rollups = 1 /\ RollupCoversFineEdges))
    /\ [][Len(consumed') > Len(consumed) =>
            (pc = "reading" /\ rollups' = 0
                /\ UNCHANGED basePackageDependencyMap)]_vars
    /\ [][basePackageDependencyMap' # basePackageDependencyMap =>
            (pc = "reading" /\ pc' = "idle" /\ rollups' = rollups + 1)]_vars

\* a call that read two records, the second of which gave the last fine
\* edge, has returned with both edges rolled up
C17_Witness ==
    /\ RolledUp
    /\ rollups = 1
    /\ Len(processed) = 2
    /\ Len(dependencyMap) = 2
    /\ Len(basePackageDependencyMap) = 2
    /\ \A i \in 1..2 : basePackageDependencyMap[i].value # <<>>

----------------------------------------------------------------------------
\* the step is a call of generateMarkdownOutput or of a read accessor
ReadOnlyCall ==
    lastCall'.name \in {"generateMarkdownOutput", "getBasePackages",
                        "getLibraryCounts", "getLibrariesToCount"}

(* C18: generateMarkdownOutput, getBasePackages, getLibraryCounts and       *)
(* getLibrariesToCount leave packageMap, dependencyMap, artifactMap,        *)
(* basePackageDependencyMap, libraryCounts and librariesToCount as they     *)
(* were, the order of their entries included.                               *)
C18_ReadOnly ==
    [][ReadOnlyCall =>
          UNCHANGED <<packageMap, dependencyMap, artifactMap,
                      basePackageDependencyMap, libraryCounts,
                      librariesToCount>>]_vars

\* a document was written whose relationships section had to sort a target
\* set kept in another order
C18_Witness ==
    /\ Reported
    /\ \E i \in 1..Len(basePackageDependencyMap) :
           basePackageDependencyMap[i].value # sort(basePackageDependencyMap[i].value)
    /\ \E i \in 1..Len(libraryCounts) : libraryCounts[i].value # <<>>

----------------------------------------------------------------------------
\* The registrations a line makes, in order: the source class with the flag
\* false, then the target class with the flag of the prefix test; a record
\* without a class name registers nothing from there on.
RegistrationsOf(line) ==
    IF line.kind # "record" \/ "sourceClass" \notin DOMAIN line.record
    THEN <<>>
    ELSE LET r == line.record
             group == IF "artifactGroup" \in DOMAIN r
                      THEN r.artifactGroup ELSE "undefined"
         IN  <<[package |-> getPackageName(r.sourceClass),
                class |-> getClassName(r.sourceClass),
                isExternal |-> FALSE]>>
                 \o IF "targetClass" \notin DOMAIN r THEN <<>>
                    ELSE <<[package |-> getPackageName(r.targetClass),
                            class |-> getClassName(r.targetClass),
                            isExternal |->
                                SubSeq(r.targetClass, 1, Len(group)) # group]>>

RECURSIVE RegistrationsUpTo(_)
RegistrationsUpTo(n) ==
    IF n = 0 THEN <<>>
    ELSE RegistrationsUpTo(n - 1) \o RegistrationsOf(consumed[n])

Registrations == RegistrationsUpTo(Len(consumed))

(* C19: the registry holds exactly the packages registered so far; each     *)
(* package's isExternal flag is the flag given at its first registration,   *)
(* whatever later registrations gave, and its class set holds exactly the   *)
(* class names of all its registrations.                                    *)
C19_FirstWriteWins ==
    LET regs == Registrations
    IN  /\ Range(MapKeys(packageMap)) = {regs[j].package : j \in 1..Len(regs)}
        /\ \A i \in 1..Len(packageMap) :
               LET of == {j \in 1..Len(regs) : regs[j].package = packageMap[i].key}
               IN  /\ packageMap[i].value.isExternal = regs[Min(of)].isExternal
                   /\ Range(packageMap[i].value.classes)
                          = {regs[j].class : j \in of}
                   /\ packageMap[i].value.name = packageMap[i].key

\* one package was registered first as internal and later as external, and
\* another first as external and later as internal
C19_Witness ==
    LET regs == Registrations
    IN  /\ \E i, j \in 1..Len(regs) :
               /\ i < j
               /\ regs[i].package = regs[j].package
               /\ ~regs[i].isExternal
               /\ regs[j].isExternal
        /\ \E i, j \in 1..Len(regs) :
               /\ i < j
               /\ regs[i].package = regs[j].package
               /\ regs[i].isExternal
               /\ ~regs[j].isExternal

----------------------------------------------------------------------------
\* the step reads a record that names both classes and its artifactGroup
ReadsGroupedRecord ==
    /\ Reads("record")
    /\ {"sourceClass", "targetClass", "artifactGroup"}
           \subseteq DOMAIN consumed'[Len(consumed')].record

(* C20: when a record is processed, a target package that was not in the    *)
(* registry (and is not the record's source package) gets isExternal true   *)
(* exactly when the targetClass string as written, array wrapper included,  *)
(* does not begin with the record's artifactGroup; a source package that    *)
(* was not in the registry gets isExternal false.                           *)
C20_TargetFlagFromWrappedName ==
    [][ReadsGroupedRecord =>
          LET r == consumed'[Len(consumed')].record
              sourcePackage == getPackageName(r.sourceClass)
              targetPackage == getPackageName(r.targetClass)
          IN  /\ ~MapHas(packageMap, sourcePackage)
                     => ~MapGet(packageMap', sourcePackage).isExternal
              /\ (~MapHas(packageMap, targetPackage)
                      /\ targetPackage # sourcePackage)
                     => (MapGet(packageMap', targetPackage).isExternal
                            <=> SubSeq(r.targetClass, 1, Len(r.artifactGroup))
                                    # r.artifactGroup)]_vars

\* an array-form target whose class lies under the record's group was
\* registered as a new package, flagged external
C20_Witness ==
    /\ Len(processed) = 1
    /\ LET r == processed[1]
       IN  /\ "artifactGroup" \in DOMAIN r
           /\ r.targetClass = "[L" \o unwrapArraySignature(r.targetClass) \o ";"
           /\ startsWith(unwrapArraySignature(r.targetClass), r.artifactGroup)
           /\ getPackageName(r.targetClass) # getPackageName(r.sourceClass)
           /\ MapGet(packageMap, getPackageName(r.targetClass)).isExternal
           /\ ~MapGet(packageMap, getPackageName(r.sourceClass)).isExternal

----------------------------------------------------------------------------
(* Vocabulary of the grouping *)

\* the groups of the grouping g that list the package pkg
GroupsOf(g, pkg) == {k \in 1..Len(g) : SetHas(g[k].value, pkg)}

\* every name the document gives: the base packages of its lists, the two
\* ends of its relationships, and the packages its details include
NamesOfDocument ==
    Range(Document.externalPackages) \cup Range(Document.internalPackages)
        \cup {Document.relationships[i].source :
                 i \in 1..Len(Document.relationships)}
        \cup UNION {Range(Document.relationships[i].targets) :
                       i \in 1..Len(Document.relationships)}
        \cup {Document.details[i].basePackage : i \in 1..Len(Document.details)}
        \cup UNION {Range(Document.details[i].includes) :
                       i \in 1..Len(Document.details)}

\* the registered packages of fewer than two segments
ShortPackages ==
    {packageMap[i].key : i \in {j \in 1..Len(packageMap) :
                                    DotCount(packageMap[j].key) = 0}}

(* C21: in every state, every registered package of at least two           *)
(* dot-separated segments is in exactly one group of the grouping; a        *)
(* package of fewer than two segments, the empty one included, is in no     *)
(* group, is no group's name, is no name of the rolled-up map and is named  *)
(* nowhere in the document; and the grouping a call returned is the         *)
(* grouping computed again from the same registry.                          *)
C21_GroupingTotalAndDeterministic ==
    [](LET g == BasePackages
       IN  /\ \A i \in 1..Len(packageMap) :
                  IF DotCount(packageMap[i].key) >= 1
                  THEN Cardinality(GroupsOf(g, packageMap[i].key)) = 1
                  ELSE /\ GroupsOf(g, packageMap[i].key) = {}
                       /\ packageMap[i].key \notin BaseNames(g)
                       /\ Reported => packageMap[i].key \notin NamesOfDocument
           /\ NoDuplicates(MapKeys(g))
           /\ lastCall.name = "getBasePackages" => Value(lastCall.result) = g)

\* the document was written for a registry that holds the empty package, a
\* package of one segment and packages of two segments and more
C21_Witness ==
    /\ Reported
    /\ "" \in ShortPackages
    /\ \E p \in ShortPackages : p # ""
    /\ Len(Document.details) >= 2
    /\ \E i \in 1..Len(packageMap) : DotCount(packageMap[i].key) >= 2

----------------------------------------------------------------------------
(* Vocabulary of the helpers' decomposition *)

\* both helpers have returned
Decomposed ==
    IsDefined(decomposition.packageName) /\ IsDefined(decomposition.simpleName)

GivenName == Value(decomposition.className)
PackageGiven == Value(decomposition.packageName)
SimpleGiven == Value(decomposition.simpleName)

\* x is written in array form
InArrayForm(x) ==
    /\ Len(x) >= 3
    /\ SubSeq(x, 1, 2) = "[L"
    /\ SubSeq(x, Len(x), Len(x)) = ";"

\* the places, from 1, of the dots of x
Dots(x) == {i \in 1..Len(x) : SubSeq(x, i, i) = "."}

\* what stands before and after the last dot of x
BeforeLastDot(x) == SubSeq(x, 1, Max(Dots(x)) - 1)
AfterLastDot(x) == SubSeq(x, Max(Dots(x)) + 1, Len(x))

(* C22 as stated: for a class name not in array form the two helpers cut    *)
(* the name at its last dot, so that a '$' after that dot stays in the      *)
(* simple name, and a non-empty package name, a dot and the simple name     *)
(* give back the class name.                                                *)
C22_AsStated ==
    (Decomposed /\ ~InArrayForm(GivenName)) =>
        /\ Dots(GivenName) # {} =>
               /\ PackageGiven = BeforeLastDot(GivenName)
               /\ SimpleGiven = AfterLastDot(GivenName)
        /\ PackageGiven # "" => PackageGiven \o "." \o SimpleGiven = GivenName

----------------------------------------------------------------------------
\* the name inside the array marks of x
InsideArrayMarks(x) == SubSeq(x, 3, Len(x) - 1)

(* C23: for a class name n not in array form, the package name and the      *)
(* simple name the helpers return for "[L" + n + ";" are those they return  *)
(* for n itself.                                                            *)
C23_ArrayFormDecomposesAsItsName ==
    (InArrayForm(GivenName) /\ ~InArrayForm(InsideArrayMarks(GivenName))) =>
        /\ IsDefined(decomposition.packageName) =>
               PackageGiven = getPackageName(InsideArrayMarks(GivenName))
        /\ IsDefined(decomposition.simpleName) =>
               SimpleGiven = getClassName(InsideArrayMarks(GivenName))

\* the helpers were called on the array form of an inner class of a package
C23_Witness ==
    /\ Decomposed
    /\ GivenName = ArrayForm("a.$a")
    /\ PackageGiven = "a"
    /\ SimpleGiven = "$a"

----------------------------------------------------------------------------
\* the class name given, without its array marks if it has both
UnwrappedGiven ==
    IF InArrayForm(GivenName) THEN InsideArrayMarks(GivenName) ELSE GivenName

(* C24 as stated: whenever the unwrapped name has a dot, its first          *)
(* character included, getClassName returns what stands after the last dot  *)
(* and getPackageName what stands before it; getClassName returns the whole *)
(* unwrapped name, and getPackageName the empty string, only when the       *)
(* unwrapped name has no dot.                                               *)
C24_AsStated ==
    Decomposed =>
        /\ Dots(UnwrappedGiven) # {} =>
               /\ SimpleGiven = AfterLastDot(UnwrappedGiven)
               /\ PackageGiven = BeforeLastDot(UnwrappedGiven)
        /\ (SimpleGiven = UnwrappedGiven /\ PackageGiven = "") =>
               Dots(UnwrappedGiven) = {}

----------------------------------------------------------------------------
\* the records processRecord completed that carry the artifactId a
\* (undefined for a record without the field)
ProcessedOf(a) ==
    {processed[i] : i \in {j \in 1..Len(processed) :
                              Field(processed[j], "artifactId") = a}}

\* the source and target packages of the records rs
PackagesOfRecords(rs) ==
    {getPackageName(r.sourceClass) : r \in rs}
        \cup {getPackageName(r.targetClass) : r \in rs}

(* C25: in every state the keys of artifactMap are the artifactIds of the   *)
(* processed records, each once, and the set under a holds, each once, the  *)
(* source and target packages of exactly the processed records with         *)
(* artifactId a, the records whose two packages are the same included.      *)
C25_ArtifactPackages ==
    [](/\ NoDuplicates(MapKeys(artifactMap))
       /\ Range(MapKeys(artifactMap))
              = {Field(processed[i], "artifactId") : i \in 1..Len(processed)}
       /\ \A i \in 1..Len(artifactMap) :
              /\ NoDuplicates(artifactMap[i].value)
              /\ Range(artifactMap[i].value)
                     = PackagesOfRecords(ProcessedOf(artifactMap[i].key)))

\* two artifacts were read, and one of them only through a record whose
\* source and target packages are the same
C25_Witness ==
    /\ Len(artifactMap) = 2
    /\ \E i \in 1..Len(artifactMap) :
           /\ ProcessedOf(artifactMap[i].key) # {}
           /\ \A r \in ProcessedOf(artifactMap[i].key) :
                  getPackageName(r.sourceClass) = getPackageName(r.targetClass)
           /\ Len(artifactMap[i].value) = 1

----------------------------------------------------------------------------
(* Vocabulary of the runs over a reordered input *)

\* what a map or a grouping holds, the order of insertion set aside
HeldBy(map) == {<<map[i].key, Range(map[i].value)>> : i \in 1..Len(map)}

\* what the fields hold, the order of insertion and the isExternal flags
\* set aside
Holdings(pm, dm, am, counts, bpdm) ==
    [packages |-> {<<pm[i].key, Range(pm[i].value.classes)>> : i \in 1..Len(pm)},
     edges |-> HeldBy(dm),
     artifacts |-> HeldBy(am),
     libraries |-> HeldBy(counts),
     grouping |-> HeldBy(getBasePackages(pm)),
     rollup |-> HeldBy(bpdm)]

\* the isExternal flag of every registered package
Flags(pm) == {<<pm[i].key, pm[i].value.isExternal>> : i \in 1..Len(pm)}

\* the fields st after processRecord on each of the records from the i-th on
RECURSIVE ProcessedFrom(_, _, _)
ProcessedFrom(records, i, st) ==
    IF i > Len(records) THEN st
    ELSE ProcessedFrom(records, i + 1,
                       processRecord(st, librariesToCount, records[i]))

\* the fields of an extractor with the given fields after one more
\* parseJsonlFile call, over the records
CallOver(records, fields) ==
    LET st == ProcessedFrom(records, 1,
                  [packageMap |-> fields.packageMap,
                   dependencyMap |-> fields.dependencyMap,
                   artifactMap |-> fields.artifactMap,
                   libraryCounts |-> fields.libraryCounts,
                   threw |-> FALSE])
    IN  [packageMap |-> st.packageMap, dependencyMap |-> st.dependencyMap,
         artifactMap |-> st.artifactMap, libraryCounts |-> st.libraryCounts,
         basePackageDependencyMap |->
             buildBasePackageDependencies(st.packageMap, st.dependencyMap,
                                          fields.basePackageDependencyMap)]

\* the fields of a new extractor, built with the same argument
NewExtractor ==
    [packageMap |-> <<>>, dependencyMap |-> <<>>, artifactMap |-> <<>>,
     libraryCounts |-> constructorLibraryCounts(librariesToCount),
     basePackageDependencyMap |-> <<>>]

\* the fields of a new extractor after one parseJsonlFile over the records
RunOver(records) == CallOver(records, NewExtractor)

HoldingsAfter(records) ==
    LET run == RunOver(records)
    IN  Holdings(run.packageMap, run.dependencyMap, run.artifactMap,
                 run.libraryCounts, run.basePackageDependencyMap)

\* the records with the first two exchanged, and with the first moved to
\* the end: every ordering of the records comes from these two steps
FirstTwoExchanged(records) ==
    [i \in 1..Len(records) |->
        IF i = 1 THEN records[2] ELSE IF i = 2 THEN records[1] ELSE records[i]]

FirstMovedToEnd(records) == Append(Tail(records), Head(records))

\* parseJsonlFile has just returned, and every line it was given since the
\* extractor was built is a record that processRecord completed
RanOverRecordsOnly ==
    /\ RolledUp
    /\ lastCall.name = "parseJsonlFile"
    /\ Len(processed) = Len(consumed)

(* C26: always, after a run over records that processRecord completes, the  *)
(* package names with their class sets, the fine edges, the artifact map,   *)
(* the library sets, the grouping and the rolled-up map hold what they hold *)
(* after a run over the same records with the first two exchanged and after *)
(* a run over them with the first moved to the end, and so after a run over *)
(* them in any order.  The isExternal flags are not part of this.           *)
C26_OrderOfRecords ==
    []((RanOverRecordsOnly /\ Len(processed) >= 2) =>
           LET now == Holdings(packageMap, dependencyMap, artifactMap,
                               libraryCounts, basePackageDependencyMap)
           IN  /\ HoldingsAfter(FirstTwoExchanged(processed)) = now
               /\ HoldingsAfter(FirstMovedToEnd(processed)) = now)

\* a run over two records after which a package has the flag that the run
\* over the same records in the other order does not give it
C26_Witness ==
    /\ RanOverRecordsOnly
    /\ Len(processed) = 2
    /\ processed[1] # processed[2]
    /\ Flags(packageMap) # Flags(RunOver(FirstTwoExchanged(processed)).packageMap)

----------------------------------------------------------------------------
\* basePackageDependencyMap of a new extractor after a parseJsonlFile call
\* over the first k of the records and a second call over the others
RolledUpInTwoCalls(records, k) ==
    CallOver(SubSeq(records, k + 1, Len(records)),
             RunOver(SubSeq(records, 1, k))).basePackageDependencyMap

\* the map m holds every key and every target the map l holds, in place
KeepsAll(l, m) ==
    /\ Len(l) <= Len(m)
    /\ \A i \in 1..Len(l) :
           /\ m[i].key = l[i].key
           /\ Len(l[i].value) <= Len(m[i].value)
           /\ SubSeq(m[i].value, 1, Len(l[i].value)) = l[i].value

\* the step in which parseJsonlFile runs its rollup and returns
RollsUp == pc = "reading" /\ pc' = "idle"

(* C27: no step takes a key or a target out of basePackageDependencyMap;    *)
(* after a run over records the map holds the keys and target sets it holds *)
(* after a call over the first of them and a second call, on the same       *)
(* extractor, over the others, wherever the input is cut; and when a call   *)
(* has rolled up, rolling up once more would leave the map as it is.        *)
C27_CallsAddUp ==
    /\ [][basePackageDependencyMap' # basePackageDependencyMap =>
            KeepsAll(basePackageDependencyMap, basePackageDependencyMap')]_vars
    /\ [](RanOverRecordsOnly =>
             \A k \in 1..(Len(processed) - 1) :
                 HeldBy(RolledUpInTwoCalls(processed, k))
                     = HeldBy(basePackageDependencyMap))
    /\ [][RollsUp =>
            buildBasePackageDependencies(packageMap', dependencyMap',
                                         basePackageDependencyMap')
                = basePackageDependencyMap']_vars

\* two records were read, and a call over the first alone rolls up a key
\* with a target to which a call over the second adds another key
C27_Witness ==
    /\ RanOverRecordsOnly
    /\ Len(processed) = 2
    /\ LET first == RunOver(SubSeq(processed, 1, 1)).basePackageDependencyMap
       IN  /\ AllEntries(first) # {}
           /\ Len(first) < Len(basePackageDependencyMap)
           /\ HeldBy(first) \subseteq HeldBy(basePackageDependencyMap)

----------------------------------------------------------------------------
\* every package name of the fine edges and of the artifact sets
PackagesReferredTo ==
    Range(MapKeys(dependencyMap)) \cup AllEntries(dependencyMap)
        \cup AllEntries(artifactMap)

\* every base package of the rolled-up map, as key or as target
BasePackagesReferredTo ==
    Range(MapKeys(basePackageDependencyMap))
        \cup AllEntries(basePackageDependencyMap)

(* C28: in every state, every package name that is a key or a target of    *)
(* dependencyMap or a member of a set of artifactMap is a key of            *)
(* packageMap, with at least one class; every base package that is a key or *)
(* a target of basePackageDependencyMap is a key of the grouping of the     *)
(* registered packages; and a document written then has a detail record     *)
(* for it.                                                                  *)
C28_NamesAreRegistered ==
    [](/\ \A p \in PackagesReferredTo :
              /\ MapHas(packageMap, p)
              /\ MapGet(packageMap, p).classes # <<>>
       /\ basePackageDependencyMap # <<>> =>
              /\ BasePackagesReferredTo \subseteq Range(MapKeys(BasePackages))
              /\ Reported =>
                     BasePackagesReferredTo \subseteq
                         {Document.details[i].basePackage :
                             i \in 1..Len(Document.details)})

\* a document was written when the fine edges held the empty package and
\* the rolled-up map a key and a target
C28_Witness ==
    /\ Reported
    /\ "" \in PackagesReferredTo
    /\ AllEntries(artifactMap) # {}
    /\ AllEntries(basePackageDependencyMap) # {}
    /\ Len(Document.details) >= 2

====
